---- MODULE Spec2Model ----
(***************************************************************************)
(* Model of the audio scheduling and generation-cache engine of            *)
(* src/index.tsx (component App): the look-ahead step scheduler, the       *)
(* generation controller fetchNewDNA with its 3-sample replay cache, and   *)
(* the playback toggle.                                                    *)
(*                                                                         *)
(* Conventions.  Times are integer milliseconds on the audio clock.        *)
(* Probabilities and Math.random() draws are integer thousandths           *)
(* (0.9 is 900, a draw lies in 0..999).  A JavaScript object is a function *)
(* whose DOMAIN is the set of its keys, so a missing key is a key outside  *)
(* the DOMAIN.  JavaScript arrays are 0-based, sequences 1-based: At reads *)
(* index i of an array as element i+1.  Timers (setTimeout, setInterval)   *)
(* carry no deadline: an armed timer may fire at any later moment.         *)
(***************************************************************************)
EXTENDS Integers, Sequences, FiniteSets, Bags, TLC

VARIABLES
    audioCtx,           \* audioCtxRef.current exists
    now,                \* audioCtxRef.current.currentTime (ms)
    isActive,           \* isActive as seen by the committed render (handlers' closure)
    isActiveState,      \* the value last passed to setIsActive, not yet rendered
    isActiveRef,        \* isActiveRef.current
    bpmRef,             \* bpmRef.current
    dnaRef,             \* dnaRef.current, the active DNA
    stepRef,            \* stepRef.current
    nextStepTime,       \* nextStepTime.current (ms)
    scheduled,          \* onsets of the scheduled steps still ahead of the clock: their sounds
                        \* are in the audio graph, their notification timeout is pending
    timerArmed,         \* the timeout whose id is in schedulerTimerRef is pending
    strayTimers,        \* pending scheduler timeouts whose id is no longer in the ref
    generationHistory,  \* generationHistoryRef.current: [bpm, samples]
    historyIndex,       \* historyIndexRef.current
    status,             \* the status label
    inFlight,           \* provider calls awaiting their response: a bag of request tempos
    recalls,            \* pending 500 ms recall timeouts: a bag of the DNA each will publish
    toggles,            \* toggle() calls suspended at `await initAudio()`: a bag of captured isActive
    clicks,             \* how many times the user has called toggle() so far
    longPressTimer,     \* longPressTimerRef.current: 0 when null, else the direction (+1 or -1)
                        \* of the running 60 ms interval
    ticks,              \* how many times a long-press interval has ticked so far
    pc,                 \* what the single JavaScript thread is running
    event               \* what the step just taken did (an observation, not program state)

vars == <<audioCtx, now, isActive, isActiveState, isActiveRef, bpmRef, dnaRef, stepRef,
          nextStepTime, scheduled, timerArmed, strayTimers, generationHistory, historyIndex, status,
          inFlight, recalls, toggles, clicks, longPressTimer, ticks, pc, event>>

\* the long-press widget's state
pressVars == <<longPressTimer, ticks>>

(***************************************************************************)
(* Program constants                                                       *)
(***************************************************************************)
INITIAL_BPM == 105
Null == -1              \* the `null` rest marker of leadMelody
Undefined == -2         \* `undefined`: a read past the end of an array
ProbOne == 1000         \* probability 1.0 in thousandths
lookAhead == 200        \* 0.2 s
startOffset == 100      \* 0.1 s
fallbackProb == 900     \* 0.9
Infinity == 1000000000  \* the floating-point Infinity: above every time that occurs
cacheSize == 3

fallbackChord == <<60, 64, 67>>

SectionA ==
    [drums |-> [kick  |-> <<1, 0, 0, 0, 1, 0, 0, 0>>, snare  |-> <<0, 0, 1, 0, 0, 0, 1, 0>>,
                hihat |-> <<1, 1, 1, 1, 1, 1, 1, 1>>, glitch |-> <<0, 0, 0, 0, 0, 0, 0, 1>>],
     bassLine |-> <<36, 36, 36, 36, 36, 36, 36, 36>>,
     leadMelody |-> <<60, Null, 63, 65, Null, 67, Null, 60>>,
     chordProgression |-> << <<48, 52, 55, 58>> >>,
     arpPattern |-> <<1, 0, 1, 0, 1, 0, 1, 0>>,
     probMap |-> <<900, 900, 900, 900, 900, 900, 900, 900>>]

SectionB ==
    [drums |-> [kick  |-> <<1, 1, 0, 0, 1, 1, 0, 0>>, snare  |-> <<0, 0, 1, 1, 0, 0, 1, 1>>,
                hihat |-> <<1, 0, 1, 0, 1, 0, 1, 0>>, glitch |-> <<1, 1, 1, 1, 0, 0, 0, 0>>],
     bassLine |-> <<34, 34, 34, 34, 34, 34, 34, 34>>,
     leadMelody |-> <<58, 60, Null, 58, 60, Null, 62, 63>>,
     chordProgression |-> << <<46, 50, 53, 57>> >>,
     arpPattern |-> <<1, 1, 1, 1, 0, 0, 0, 0>>,
     probMap |-> <<700, 700, 700, 700, 700, 700, 700, 700>>]

\* energy 0.5 is kept in tenths
INITIAL_DNA ==
    [sections |-> [A |-> SectionA, B |-> SectionB],
     genre |-> "DREAM_ELECTRONICA",
     palette |-> "ETHEREAL",
     energy |-> 5,
     color |-> "#a855f7",
     mood |-> "MYSTICAL",
     scale |-> "C Minor",
     aiThought |-> "System initialized. Optimizing for high-speed neural synthesis..."]

(***************************************************************************)
(* Provider payloads (the parsed JSON `res`) used as inputs                *)
(***************************************************************************)
\* only `genre` set
PayloadGenreX == [genre |-> "X"]

\* sections supplied in part: only A, and A lacks drums and chordProgression
PayloadPartial ==
    [genre |-> "PARTIAL",
     sections |-> [A |-> [bassLine |-> <<40, 0, 40, 0>>,
                          leadMelody |-> <<0, Null, 72>>,
                          arpPattern |-> <<0, 0, 0, 0, 0, 0, 0, 0>>,
                          probMap |-> <<ProbOne, ProbOne, ProbOne, ProbOne>>]]]

\* complete sections: probMap is 1.0 at every index of A and 0.0 at every index of B
SectionOne ==
    [drums |-> [kick  |-> <<1, 0, 1, 0, 1, 0, 1, 0>>, snare  |-> <<0, 1, 0, 1, 0, 1, 0, 1>>,
                hihat |-> <<1, 1, 0, 0, 1, 1, 0, 0>>, glitch |-> <<0, 1, 0, 0, 0, 0, 0, 0>>],
     bassLine |-> <<38, 0, 38, 0, 38, 0, 38, 0>>,
     leadMelody |-> <<0, Null, 72, 74, Null, 76, Null, 72>>,
     chordProgression |-> << <<50, 53, 57>>, <<48, 52, 55>> >>,
     arpPattern |-> <<1, 1, 0, 0, 1, 1, 0, 0>>,
     probMap |-> <<ProbOne, ProbOne, ProbOne, ProbOne, ProbOne, ProbOne, ProbOne, ProbOne>>]

SectionZero == [SectionOne EXCEPT !.probMap = <<0, 0, 0, 0, 0, 0, 0, 0>>]

PayloadGate ==
    [genre |-> "glitch_hop", mood |-> "TENSE",
     sections |-> [A |-> SectionOne, B |-> SectionZero]]

\* complete sections whose step-indexed arrays are all shorter than the 8-step pattern
ShortSection ==
    [drums |-> [kick  |-> <<1, 1, 1>>, snare  |-> <<1>>,
                hihat |-> <<1, 1, 1, 1, 1>>, glitch |-> <<1, 1>>],
     bassLine |-> <<40, 40>>,
     leadMelody |-> <<60, 62, 64, 65>>,
     chordProgression |-> << <<48, 52, 55>> >>,
     arpPattern |-> <<1, 1, 1, 1, 1, 1>>,
     probMap |-> <<ProbOne, ProbOne>>]

PayloadShort == [genre |-> "SHORT", sections |-> [A |-> ShortSection, B |-> ShortSection]]

\* complete sections that trigger no sound: no flag set, rests only, an empty first chord
SilentSection ==
    [drums |-> [kick  |-> <<0, 0, 0, 0, 0, 0, 0, 0>>, snare  |-> <<0, 0, 0, 0, 0, 0, 0, 0>>,
                hihat |-> <<0, 0, 0, 0, 0, 0, 0, 0>>, glitch |-> <<0, 0, 0, 0, 0, 0, 0, 0>>],
     bassLine |-> <<0, 0, 0, 0, 0, 0, 0, 0>>,
     leadMelody |-> <<Null, Null, Null, Null, Null, Null, Null, Null>>,
     chordProgression |-> << <<>> >>,
     arpPattern |-> <<0, 0, 0, 0, 0, 0, 0, 0>>,
     probMap |-> <<0, 0, 0, 0, 0, 0, 0, 0>>]

PayloadSilent == [genre |-> "SILENCE", sections |-> [A |-> SilentSection, B |-> SilentSection]]

(***************************************************************************)
(* Pure helpers                                                            *)
(***************************************************************************)
\* String.prototype.toUpperCase on the genre labels that occur
toUpperCase(s) == IF s = "glitch_hop" THEN "GLITCH_HOP" ELSE s

\* the spread with its operands swapped: { ...res, ...INITIAL_DNA }
MergeBaselineWins(base, res) ==
    [k \in DOMAIN base \cup DOMAIN res |-> IF k \in DOMAIN base THEN base[k] ELSE res[k]]

\* { ...INITIAL_DNA, ...res }: a key-by-key (shallow) spread
Merge(base, res) ==
    [k \in DOMAIN base \cup DOMAIN res |-> IF k \in DOMAIN res THEN res[k] ELSE base[k]]

\* an index past the end wrapping round to the start of the array
AtWrapped(arr, i) == arr[(i % Len(arr)) + 1]

\* arr[i] for a 0-based index; undefined past the end
At(arr, i) == IF (i + 1) \in DOMAIN arr THEN arr[i + 1] ELSE Undefined

\* JavaScript truthiness of a number, null or undefined
Truthy(v) == v \notin {0, Null, Undefined}

\* the step duration of the initial tempo, whatever the tempo is
stepDurInitial(bpm) == 15000 \div INITIAL_BPM

\* a lead entry tested for truthiness, as the bass entry is
isNoteTruthy(v) == Truthy(v)

\* leadNote !== null && leadNote !== undefined   (line 211)
isNote(v) == v \notin {Null, Undefined}

\* 60 / bpm / 4 seconds, in ms (the fraction of a millisecond is dropped): Infinity at
\* tempo 0, negative at a negative tempo
stepDur(bpm) ==
    IF bpm > 0 THEN 15000 \div bpm
    ELSE IF bpm = 0 THEN Infinity
    ELSE 0 - (15000 \div (0 - bpm))

\* nextStepTime.current += stepDur   (line 227)
advance(time, dur) == IF dur = Infinity THEN Infinity ELSE time + dur

\* the section switching every 16 steps instead of every 32
sectionKeyOfSixteen(step) == IF (step \div 16) % 2 = 0 THEN "A" ELSE "B"

\* the section switching every 256 steps
sectionKeyOfLong(step) == IF (step \div 256) % 2 = 0 THEN "A" ELSE "B"

\* Math.floor(stepRef / 32) % 2 === 0 ? 'A' : 'B'
sectionKeyOf(step) == IF (step \div 32) % 2 = 0 THEN "A" ELSE "B"

\* obj.key?.[i]: undefined when the key is missing or the index is past the end
Get(obj, key, i) == IF key \in DOMAIN obj THEN At(obj[key], i) ELSE Undefined

\* curSection.chordProgression[0] || [60, 64, 67]   (chordProgression present)
firstChord(sec) ==
    IF Len(sec.chordProgression) >= 1 THEN sec.chordProgression[1] ELSE fallbackChord

\* curSection.probMap?.[stepIdx] ?? 0.9
probAt(sec, i) ==
    IF Get(sec, "probMap", i) \in {Null, Undefined} THEN fallbackProb ELSE Get(sec, "probMap", i)

\* the gate with <= for <
gatePassesLax(draw, prob) == draw <= prob

\* Math.random() < prob
gatePasses(draw, prob) == draw < prob

\* step % 8 === 0, where step = stepRef.current % 16
padDue(gstep) == ((gstep % 16) % 8) = 0

(***************************************************************************)
(* One iteration of the scheduler's while loop (lines 194-228), as the     *)
(* record of what it did.  `draw` is the Math.random() of the gate and     *)
(* `arpDraw` the Math.random() that picks the arpeggio tone.  `fault` says *)
(* that the iteration threw a TypeError (a read of a property of           *)
(* undefined, or a non-finite frequency handed to the audio API) or a      *)
(* RangeError (the audio API rejects a negative start or end time, and a   *)
(* non-finite one with a TypeError); what was                              *)
(* played before the throw stays played.  `notify` is what the timeout of  *)
(* line 226 will hand to setCurrentStep and setCurrentSection.             *)
(***************************************************************************)
\* the pad trigger moved inside the gated block
padsAlsoGated(gate, gstep, sec) ==
    IF gate /\ padDue(gstep) THEN firstChord(sec) ELSE <<>>

\* lines 221-225: the tones handed to the pad voice
padsFor(gate, gstep, sec) ==
    IF padDue(gstep) THEN firstChord(sec) ELSE <<>>

iteration(dna, gstep, time, bpm, draw, arpDraw) ==
    LET sectionKey == sectionKeyOf(gstep)
        stepIdx    == (gstep % 16) % 8
        dur        == stepDur(bpm)
        \* a voice starting at `time` and ending at time + dur * tenths / 10 is rejected
        rejects(tenths) == time < 0 \/ dur = Infinity \/ 10 * time + tenths * dur < 0
        hasSec     == sectionKey \in DOMAIN dna.sections
        sec        == dna.sections[sectionKey]
        prob       == IF hasSec THEN probAt(sec, stepIdx) ELSE 0
        gate       == hasSec /\ gatePasses(draw, prob)
        okKick     == gate /\ "drums" \in DOMAIN sec /\ "kick" \in DOMAIN sec.drums
        okSnare    == okKick /\ "snare" \in DOMAIN sec.drums
        okHat      == okSnare /\ "hihat" \in DOMAIN sec.drums
        percOn     == {c \in {"kick", "snare", "hat", "glitch"} :
                         \/ c = "kick"   /\ okKick  /\ Truthy(At(sec.drums.kick, stepIdx))
                         \/ c = "snare"  /\ okSnare /\ Truthy(At(sec.drums.snare, stepIdx))
                         \/ c = "hat"    /\ okHat   /\ Truthy(At(sec.drums.hihat, stepIdx))
                         \/ c = "glitch" /\ okHat   /\ Truthy(Get(sec.drums, "glitch", stepIdx))}
        percBad    == percOn # {} /\ time < 0
        bassOn     == okHat /\ ~percBad /\ Truthy(Get(sec, "bassLine", stepIdx))
        bassBad    == bassOn /\ rejects(8)
        leadOn     == okHat /\ ~percBad /\ ~bassBad /\ isNote(Get(sec, "leadMelody", stepIdx))
        leadBad    == leadOn /\ rejects(15)
        hasChords  == hasSec /\ "chordProgression" \in DOMAIN sec
        arpOn      == okHat /\ ~percBad /\ ~bassBad /\ ~leadBad
                      /\ Truthy(Get(sec, "arpPattern", stepIdx))
        arpFault   == arpOn /\ (~hasChords \/ firstChord(sec) = <<>> \/ time < 0)
        arpNote    == IF arpOn /\ ~arpFault
                      THEN LET chord == firstChord(sec)
                           IN  chord[((arpDraw * Len(chord)) \div 1000) + 1] + 12
                      ELSE Undefined
        reachesPad == hasSec /\ (~gate \/ (okHat /\ ~percBad /\ ~bassBad /\ ~leadBad /\ ~arpFault))
        padFault   == reachesPad /\ padDue(gstep)
                      /\ (~hasChords \/ (padsFor(gate, gstep, sec) # <<>> /\ rejects(82)))
        done       == reachesPad /\ ~padFault
    IN  [op |-> "step", gstep |-> gstep, stepIdx |-> stepIdx, sectionKey |-> sectionKey, time |-> time,
         draw |-> draw, prob |-> prob, gate |-> gate,
         perc |-> IF percBad THEN {} ELSE percOn,
         bass |-> IF bassOn /\ ~bassBad THEN Get(sec, "bassLine", stepIdx) ELSE Undefined,
         lead |-> IF leadOn /\ ~leadBad THEN Get(sec, "leadMelody", stepIdx) ELSE Undefined,
         arp  |-> arpNote,
         pads |-> IF done THEN padsFor(gate, gstep, sec) ELSE <<>>,
         fault |-> ~done,
         notify |-> IF done THEN <<stepIdx, sectionKey>> ELSE <<>>,
         dur |-> dur]

(***************************************************************************)
(* State after construction (lines 60-87)                                  *)
(***************************************************************************)
Did(name) == [op |-> name]

\* a step that none of the observations below is about
Quiet == Did("quiet")

Init ==
    /\ audioCtx = FALSE
    /\ now = 0
    /\ isActive = FALSE
    /\ isActiveState = FALSE
    /\ isActiveRef = FALSE
    /\ bpmRef = INITIAL_BPM
    /\ dnaRef = INITIAL_DNA
    /\ stepRef = 0
    /\ nextStepTime = 0
    /\ scheduled = {}
    /\ timerArmed = FALSE
    /\ strayTimers = 0
    /\ generationHistory = [bpm |-> INITIAL_BPM, samples |-> <<>>]
    /\ historyIndex = 0
    /\ status = "STANDBY"
    /\ inFlight = EmptyBag
    /\ recalls = EmptyBag
    /\ toggles = EmptyBag
    /\ clicks = 0
    /\ longPressTimer = 0
    /\ ticks = 0
    /\ pc = "idle"
    /\ event = Quiet

playbackVars == <<audioCtx, now, isActive, isActiveState, isActiveRef, bpmRef, stepRef,
                  nextStepTime, scheduled, timerArmed, strayTimers, toggles, clicks, pressVars>>
cacheVars == <<generationHistory, historyIndex, inFlight, recalls>>

(***************************************************************************)
(* fetchNewDNA up to its first await (lines 233-265).  maxInFlight and     *)
(* maxRecalls bound the provider calls and the recall timeouts pending at  *)
(* one time.                                                               *)
(***************************************************************************)
\* the tempo recorded without emptying the cache
historyKeptOnTempoChange == [generationHistory EXCEPT !.bpm = bpmRef]

\* lines 239-242: the cache and the index the rest of the call works on
historyAfterCheck ==
    IF generationHistory.bpm # bpmRef
    THEN [bpm |-> bpmRef, samples |-> <<>>]
    ELSE generationHistory

indexAfterCheck == IF generationHistory.bpm # bpmRef THEN -1 ELSE historyIndex

\* line 248
nextIndex(index, len) == (index + 1) % len

\* the observation of a fetchNewDNA call: which branch it took and what it found
fetchEvent(kind) ==
    [op |-> "fetch", kind |-> kind,
     reset |-> isActiveRef /\ generationHistory.bpm # bpmRef,
     prevLen |-> Len(generationHistory.samples),
     prevIndex |-> historyIndex,
     prevInFlight |-> BagCardinality(inFlight),
     prevStatus |-> status]

fetchNewDNA(maxInFlight, maxRecalls) ==
    IF ~isActiveRef
    THEN /\ event' = fetchEvent("inactive")
         /\ UNCHANGED <<cacheVars, status, dnaRef>>
    ELSE LET hist == historyAfterCheck
             idx  == indexAfterCheck
             n    == Len(hist.samples)
         IN  /\ generationHistory' = hist
             /\ UNCHANGED dnaRef
             /\ IF n >= cacheSize
                THEN /\ BagCardinality(recalls) < maxRecalls
                     /\ historyIndex' = nextIndex(idx, n)
                     /\ recalls' = recalls (+) SetToBag({hist.samples[nextIndex(idx, n) + 1]})
                     /\ status' = "RECALLING..."
                     /\ UNCHANGED inFlight
                     /\ event' = fetchEvent("recall")
                ELSE /\ BagCardinality(inFlight) < maxInFlight
                     /\ historyIndex' = idx
                     /\ inFlight' = inFlight (+) SetToBag({bpmRef})
                     /\ status' = "CALCULATING..."
                     /\ UNCHANGED recalls
                     /\ event' = fetchEvent("request")

\* the 18 s interval of the cadence effect (lines 312-319) ticks; the interval exists
\* while the committed render has isActive
intervalTick(maxInFlight, maxRecalls) ==
    /\ pc = "idle"
    /\ isActive
    /\ fetchNewDNA(maxInFlight, maxRecalls)
    /\ UNCHANGED <<playbackVars, pc>>

\* the recall timeout of lines 254-258 fires
recallFires ==
    /\ pc = "idle"
    /\ \E d \in BagToSet(recalls) :
        /\ recalls' = recalls (-) SetToBag({d})
        /\ dnaRef' = d
        /\ status' = toUpperCase(d.genre) \o " (CACHED)"
        /\ event' = [op |-> "recallFires", dna |-> d]
    /\ UNCHANGED <<playbackVars, pc, generationHistory, historyIndex, inFlight>>

(***************************************************************************)
(* The provider call returns (lines 295-309)                               *)
(***************************************************************************)
\* lines 299-301
pushSample(samples, dna) == Append(samples, dna)

\* the call resolves with text that parses to `res`
providerResolves(payloads) ==
    /\ pc = "idle"
    /\ \E b \in BagToSet(inFlight), res \in payloads :
        LET mergedDna == Merge(INITIAL_DNA, res)
        IN  /\ inFlight' = inFlight (-) SetToBag({b})
            /\ generationHistory' =
                  [generationHistory EXCEPT !.samples = pushSample(@, mergedDna)]
            /\ historyIndex' = Len(generationHistory'.samples) - 1
            /\ dnaRef' = mergedDna
            /\ status' = toUpperCase(mergedDna.genre)
            /\ event' = [op |-> "providerResolves", res |-> res, bpm |-> b]
    /\ UNCHANGED <<playbackVars, pc, recalls>>

\* a catch block that falls back to the baseline DNA
providerFailsFallsBack ==
    /\ pc = "idle"
    /\ \E b \in BagToSet(inFlight) : inFlight' = inFlight (-) SetToBag({b})
    /\ status' = "THINKING_FAILED"
    /\ dnaRef' = INITIAL_DNA
    /\ event' = Did("providerFails")
    /\ UNCHANGED <<playbackVars, pc, generationHistory, historyIndex, recalls>>

\* the call rejects, or JSON.parse throws on its text: the catch block
providerFails ==
    /\ pc = "idle"
    /\ \E b \in BagToSet(inFlight) : inFlight' = inFlight (-) SetToBag({b})
    /\ status' = "THINKING_FAILED"
    /\ event' = Did("providerFails")
    /\ UNCHANGED <<playbackVars, pc, generationHistory, historyIndex, dnaRef, recalls>>

(***************************************************************************)
(* Playback controller (lines 335-345) and the cadence effect              *)
(***************************************************************************)
genVars == <<cacheVars, status, dnaRef>>

\* toggle() is called: initAudio creates the audio graph on first use (lines 92-124),
\* and the call suspends at `await initAudio()` holding its closure's isActive
toggleCall(maxToggles, maxClicks) ==
    /\ pc = "idle"
    /\ BagCardinality(toggles) < maxToggles
    /\ clicks < maxClicks
    /\ clicks' = clicks + 1
    /\ audioCtx' = TRUE
    /\ toggles' = toggles (+) SetToBag({isActive})
    /\ event' = Quiet
    /\ UNCHANGED <<now, isActive, isActiveState, isActiveRef, bpmRef, stepRef, nextStepTime,
                   scheduled, timerArmed, strayTimers, pressVars, pc, genVars>>

\* a suspended toggle() resumes in its stop branch (lines 338-339)
toggleStop ==
    /\ pc = "idle"
    /\ BagIn(TRUE, toggles)
    /\ toggles' = toggles (-) SetToBag({TRUE})
    /\ isActiveState' = FALSE
    /\ isActiveRef' = FALSE
    /\ timerArmed' = FALSE
    /\ event' = Quiet
    /\ UNCHANGED <<pressVars, scheduled, clicks, audioCtx, now, isActive, bpmRef, stepRef, nextStepTime, strayTimers,
                   pc, genVars>>

\* a start branch that resumes from the cursor left at the stop
toggleStartResumes ==
    /\ pc = "idle"
    /\ BagIn(FALSE, toggles)
    /\ toggles' = toggles (-) SetToBag({FALSE})
    /\ isActiveState' = TRUE
    /\ isActiveRef' = TRUE
    /\ pc' = "scheduler_toggle"
    /\ event' = Quiet
    /\ UNCHANGED <<pressVars, scheduled, clicks, audioCtx, now, isActive, bpmRef, stepRef, nextStepTime,
                   timerArmed, strayTimers, genVars>>

\* a suspended toggle() resumes in its start branch (lines 341-343) and calls scheduler()
toggleStart ==
    /\ pc = "idle"
    /\ BagIn(FALSE, toggles)
    /\ toggles' = toggles (-) SetToBag({FALSE})
    /\ isActiveState' = TRUE
    /\ isActiveRef' = TRUE
    /\ nextStepTime' = now + startOffset
    /\ pc' = "scheduler_toggle"
    /\ event' = Quiet
    /\ UNCHANGED <<pressVars, scheduled, clicks, audioCtx, now, isActive, bpmRef, stepRef, timerArmed, strayTimers,
                   genVars>>

\* React commits the render that follows setIsActive: handlers close over the new
\* isActive and the cadence effect is torn down or set up
render ==
    /\ pc = "idle"
    /\ isActive # isActiveState
    /\ isActive' = isActiveState
    /\ event' = Quiet
    /\ UNCHANGED <<pressVars, scheduled, clicks, audioCtx, now, isActiveState, isActiveRef, bpmRef, stepRef, nextStepTime,
                   timerArmed, strayTimers, toggles, pc, genVars>>

\* the tempo slider's onChange (line 522)
tempoSlider(tempos) ==
    /\ pc = "idle"
    /\ \E v \in tempos : bpmRef' = v
    /\ event' = Quiet
    /\ UNCHANGED <<pressVars, scheduled, clicks, audioCtx, now, isActive, isActiveState, isActiveRef, stepRef, nextStepTime,
                   timerArmed, strayTimers, toggles, pc, genVars>>

\* Math.max(40, Math.min(240, v))   (line 352)
clampBpm(v) == IF v > 240 THEN 240 ELSE IF v < 40 THEN 40 ELSE v

\* a long press begins on the "-" or "+" button (lines 348-350): nothing happens while an
\* interval is already running
handleLongPress(directions) ==
    /\ pc = "idle"
    /\ \E direction \in directions :
        longPressTimer' = IF longPressTimer # 0 THEN longPressTimer ELSE direction
    /\ event' = Quiet
    /\ UNCHANGED <<ticks, scheduled, clicks, audioCtx, now, isActive, isActiveState, isActiveRef, bpmRef,
                   stepRef, nextStepTime, timerArmed, strayTimers, toggles, pc, genVars>>

\* the long-press interval ticks (lines 351-355)
longPressTick(maxTicks) ==
    /\ pc = "idle"
    /\ longPressTimer # 0
    /\ ticks < maxTicks
    /\ ticks' = ticks + 1
    /\ bpmRef' = clampBpm(bpmRef + longPressTimer)
    /\ event' = Quiet
    /\ UNCHANGED <<longPressTimer, scheduled, clicks, audioCtx, now, isActive, isActiveState, isActiveRef,
                   stepRef, nextStepTime, timerArmed, strayTimers, toggles, pc, genVars>>

\* the button is released or left (lines 359-364)
stopLongPress ==
    /\ pc = "idle"
    /\ longPressTimer # 0
    /\ longPressTimer' = 0
    /\ event' = Quiet
    /\ UNCHANGED <<ticks, scheduled, clicks, audioCtx, now, isActive, isActiveState, isActiveRef, bpmRef,
                   stepRef, nextStepTime, timerArmed, strayTimers, toggles, pc, genVars>>

\* the numeric entry form is submitted (lines 366-374); `entries` are the values parseInt
\* gives for the text typed, NaN (nothing is changed) not among them
handleManualBpm(entries) ==
    /\ pc = "idle"
    /\ \E val \in entries : bpmRef' = val
    /\ event' = Quiet
    /\ UNCHANGED <<pressVars, scheduled, clicks, audioCtx, now, isActive, isActiveState, isActiveRef,
                   stepRef, nextStepTime, timerArmed, strayTimers, toggles, pc, genVars>>

\* the audio clock runs on: the steps whose onset it passes have sounded and notified
clockAdvances(deltas, maxTime) ==
    /\ pc = "idle"
    /\ audioCtx
    /\ \E d \in deltas : now + d <= maxTime /\ now' = now + d
    /\ scheduled' = {t \in scheduled : t > now'}
    /\ event' = Quiet
    /\ UNCHANGED <<pressVars, clicks, audioCtx, isActive, isActiveState, isActiveRef, bpmRef, stepRef,
                   nextStepTime, timerArmed, strayTimers, toggles, pc, genVars>>

(***************************************************************************)
(* Step scheduler (lines 189-231)                                          *)
(***************************************************************************)
\* the timeout callback without the active check of line 191
schedulerTimerUnguarded ==
    /\ pc = "idle"
    /\ \/ timerArmed /\ timerArmed' = FALSE /\ UNCHANGED strayTimers
       \/ strayTimers > 0 /\ strayTimers' = strayTimers - 1 /\ UNCHANGED timerArmed
    /\ pc' = IF audioCtx THEN "scheduler_timer" ELSE "idle"
    /\ event' = Quiet
    /\ UNCHANGED <<pressVars, scheduled, clicks, audioCtx, now, isActive, isActiveState, isActiveRef,
                   bpmRef, stepRef, nextStepTime, toggles, genVars>>

\* a pending scheduler timeout fires: the guard of line 191
schedulerTimer ==
    /\ pc = "idle"
    /\ \/ timerArmed /\ timerArmed' = FALSE /\ UNCHANGED strayTimers
       \/ strayTimers > 0 /\ strayTimers' = strayTimers - 1 /\ UNCHANGED timerArmed
    /\ pc' = IF audioCtx /\ isActiveRef THEN "scheduler_timer" ELSE "idle"
    /\ event' = Quiet
    /\ UNCHANGED <<pressVars, scheduled, clicks, audioCtx, now, isActive, isActiveState, isActiveRef, bpmRef, stepRef,
                   nextStepTime, toggles, genVars>>

\* a while condition without the look-ahead
windowOpenNoLookAhead == nextStepTime < now

\* line 193: the while condition
windowOpen == nextStepTime < now + lookAhead

\* one iteration of the while loop; a throw ends the invocation without re-arming
\* (and, in toggle, without reaching fetchNewDNA)
schedulerStep(draws, arpDraws) ==
    /\ pc \in {"scheduler_timer", "scheduler_toggle"}
    /\ windowOpen
    /\ \E draw \in draws, arpDraw \in arpDraws :
        event' = iteration(dnaRef, stepRef, nextStepTime, bpmRef, draw, arpDraw)
    /\ IF event'.fault
       THEN pc' = "idle" /\ UNCHANGED <<nextStepTime, stepRef, scheduled>>
       ELSE /\ nextStepTime' = advance(nextStepTime, stepDur(bpmRef))
            /\ stepRef' = stepRef + 1
            /\ scheduled' = IF nextStepTime > now THEN scheduled \cup {nextStepTime}
                                                 ELSE scheduled
            /\ UNCHANGED pc
    /\ UNCHANGED <<pressVars, clicks, audioCtx, now, isActive, isActiveState, isActiveRef, bpmRef, timerArmed,
                   strayTimers, toggles, genVars>>

\* the loop is over: line 230 re-arms; the timeout the ref named, if still pending, is
\* no longer named by it
schedulerRearm(maxStray) ==
    /\ pc \in {"scheduler_timer", "scheduler_toggle"}
    /\ ~windowOpen
    /\ timerArmed' = TRUE
    /\ strayTimers' = IF timerArmed THEN strayTimers + 1 ELSE strayTimers
    /\ strayTimers' <= maxStray
    /\ pc' = IF pc = "scheduler_toggle" THEN "fetch_toggle" ELSE "idle"
    /\ event' = Quiet
    /\ UNCHANGED <<pressVars, scheduled, clicks, audioCtx, now, isActive, isActiveState, isActiveRef, bpmRef, stepRef,
                   nextStepTime, toggles, genVars>>

\* toggle's call of fetchNewDNA (line 343), after scheduler() returned
toggleFetch(maxInFlight, maxRecalls) ==
    /\ pc = "fetch_toggle"
    /\ fetchNewDNA(maxInFlight, maxRecalls)
    /\ pc' = "idle"
    /\ UNCHANGED playbackVars

(***************************************************************************)
(* Specifications.  Every specification runs the playback controller, the *)
(* scheduler and the generation controller; they differ in the inputs the  *)
(* environment supplies (provider payloads, tempos, random draws, clock     *)
(* advances) and in the bounds on what is pending at one time.  The tempo   *)
(* is changed with the slider in every specification; the long press and   *)
(* the numeric entry are used in SpecTempo only.                            *)
(***************************************************************************)
MaxToggles == 1         \* toggle() calls suspended at one time
MaxInFlight == 2        \* provider calls pending at one time
MaxRecalls == 1         \* recall timeouts pending at one time
MaxStray == 1           \* scheduler timeouts pending beside the one the ref names
MaxClicks == 3          \* toggle() calls in a run of Spec
MaxTime == 150          \* the audio clock's last reading in a run of Spec (ms)
MaxClicksLong == 2      \* toggle() calls in a run of SpecSched
MaxTimeLong == 10000    \* the audio clock's last reading in a run of SpecSched (ms)
MaxTicks == 1           \* ticks of a long-press interval in a run of SpecTempo
MaxClicksTempo == 2     \* toggle() calls in a run of SpecTempo
MaxClicksShort == 3     \* toggle() calls in a run of SpecShort
MaxTimeShort == 1500    \* the audio clock's last reading in a run of SpecShort (ms)
MaxClicksLoop == 2      \* toggle() calls in a run of SpecLoop
MaxTimeLoop == 3000     \* the audio clock's last reading in a run of SpecLoop (ms)
MaxStepsLoop == 30      \* steps scheduled in a run of SpecLoop

NextWith(E) ==
    \/ toggleCall(E.maxToggles, E.maxClicks)
    \/ toggleStop
    \/ toggleStart
    \/ render
    \/ tempoSlider(E.tempos)
    \/ clockAdvances(E.deltas, E.maxTime)
    \/ schedulerTimer
    \/ schedulerStep(E.draws, E.arpDraws)
    \/ schedulerRearm(E.maxStray)
    \/ toggleFetch(E.maxInFlight, E.maxRecalls)
    \/ intervalTick(E.maxInFlight, E.maxRecalls)
    \/ recallFires
    \/ providerResolves(E.payloads)
    \/ providerFails

\* the generation cache under tempo changes and overlapping requests
EnvCache ==
    [maxToggles |-> MaxToggles, maxInFlight |-> MaxInFlight, maxRecalls |-> MaxRecalls,
     maxStray |-> MaxStray, maxClicks |-> MaxClicks, maxTime |-> MaxTime,
     tempos |-> {105, 120}, payloads |-> {PayloadGenreX},
     draws |-> {500}, arpDraws |-> {0}, deltas |-> {150}]

Next == NextWith(EnvCache)

Spec == Init /\ [][Next]_vars

\* the scheduler over a long run at the initial tempo, one provider call at a time
EnvSched ==
    [maxToggles |-> MaxToggles, maxInFlight |-> 1, maxRecalls |-> MaxRecalls,
     maxStray |-> MaxStray, maxClicks |-> MaxClicksLong, maxTime |-> MaxTimeLong,
     tempos |-> {INITIAL_BPM}, payloads |-> {PayloadGenreX, PayloadGate, PayloadPartial},
     draws |-> {0, 999}, arpDraws |-> {0, 999}, deltas |-> {5000}]

NextSched == NextWith(EnvSched)

SpecSched == Init /\ [][NextSched]_vars

\* every tempo control: the slider, the long press on "-" and "+", the numeric entry
EnvTempo ==
    [maxToggles |-> MaxToggles, maxInFlight |-> 1, maxRecalls |-> MaxRecalls,
     maxStray |-> MaxStray, maxClicks |-> MaxClicksTempo, maxTime |-> MaxTime,
     tempos |-> {INITIAL_BPM}, payloads |-> {PayloadGenreX},
     draws |-> {500}, arpDraws |-> {0}, deltas |-> {150},
     directions |-> {-1, 1}, entries |-> {300}]

NextTempo ==
    \/ NextWith(EnvTempo)
    \/ handleLongPress(EnvTempo.directions)
    \/ longPressTick(MaxTicks)
    \/ stopLongPress
    \/ handleManualBpm(EnvTempo.entries)

SpecTempo == Init /\ [][NextTempo]_vars

\* the scheduler reading arrays shorter than the pattern
EnvShort ==
    [maxToggles |-> MaxToggles, maxInFlight |-> 1, maxRecalls |-> MaxRecalls,
     maxStray |-> MaxStray, maxClicks |-> MaxClicksShort, maxTime |-> MaxTimeShort,
     tempos |-> {INITIAL_BPM}, payloads |-> {PayloadShort},
     draws |-> {0, 999}, arpDraws |-> {0}, deltas |-> {1500}]

NextShort == NextWith(EnvShort)

SpecShort == Init /\ [][NextShort]_vars

\* the scheduler's loop under tempos entered as zero or negative numbers
EnvLoop ==
    [maxToggles |-> MaxToggles, maxInFlight |-> 1, maxRecalls |-> MaxRecalls,
     maxStray |-> MaxStray, maxClicks |-> MaxClicksLoop, maxTime |-> MaxTimeLoop,
     tempos |-> {INITIAL_BPM}, payloads |-> {PayloadSilent},
     draws |-> {500}, arpDraws |-> {0}, deltas |-> {3000},
     entries |-> {0, -60}]

NextLoop ==
    \/ toggleCall(EnvLoop.maxToggles, EnvLoop.maxClicks)
    \/ toggleStop
    \/ toggleStart
    \/ render
    \/ tempoSlider(EnvLoop.tempos)
    \/ handleManualBpm(EnvLoop.entries)
    \/ clockAdvances(EnvLoop.deltas, EnvLoop.maxTime)
    \/ schedulerTimer
    \/ (stepRef < MaxStepsLoop /\ schedulerStep(EnvLoop.draws, EnvLoop.arpDraws))
    \/ schedulerRearm(EnvLoop.maxStray)
    \/ toggleFetch(EnvLoop.maxInFlight, EnvLoop.maxRecalls)
    \/ intervalTick(EnvLoop.maxInFlight, EnvLoop.maxRecalls)
    \/ recallFires
    \/ providerResolves(EnvLoop.payloads)
    \/ providerFails

SpecLoop == Init /\ [][NextLoop]_vars

(***************************************************************************)
(* Claims                                                                  *)
(***************************************************************************)
samples == generationHistory.samples

\* the step just taken was a fetchNewDNA call that got past the active check
FetchRan == event.op = "fetch" /\ event.kind # "inactive"

\* the step just taken was a scheduler iteration that ran to its end: the step was
\* scheduled (cursor and counter advanced, notification queued)
StepScheduled == event.op = "step" /\ ~event.fault

\* C1: with the tempo unchanged and at least three samples cached, a generation tick
\* makes no provider call, moves the replay index to (previous index + 1) mod 3 and
\* queues the publication of the cached sample at that index.
C1_RecallRotatesModThree ==
    (FetchRan /\ ~event.reset /\ event.prevLen >= 3) =>
        /\ event.kind = "recall"
        /\ BagCardinality(inFlight) = event.prevInFlight
        /\ historyIndex = (event.prevIndex + 1) % 3
        /\ BagIn(samples[historyIndex + 1], recalls)

\* C2: a generation tick that reads a tempo other than the cache's empties the cache,
\* records the new tempo, resets the replay index and calls the provider, whatever the
\* cache held.
C2_TempoChangeResetsCache ==
    (FetchRan /\ event.reset) =>
        /\ samples = <<>>
        /\ generationHistory.bpm = bpmRef
        /\ historyIndex = -1
        /\ event.kind = "request"
        /\ BagCardinality(inFlight) = event.prevInFlight + 1
        /\ BagIn(bpmRef, inFlight)

\* C2's case: such a tick found three samples in the cache
C2_ResetOfFullCache == FetchRan /\ event.reset /\ event.prevLen >= 3 /\ samples = <<>>

\* C3: a provider response that arrives while playback is stopped changes neither the
\* active DNA, nor the cache, nor the replay index.
C3_ResponseAfterStopDiscarded ==
    [][(event'.op = "providerResolves" /\ ~isActiveRef) =>
            UNCHANGED <<dnaRef, generationHistory, historyIndex>>]_vars

\* C4 as claimed: a failed provider call leaves the active DNA, the cache and the replay
\* index alone, sets the failure label and leaves the scheduler running, and the next
\* generation tick calls the provider again.
C4_FailureThenRetry ==
    [][/\ event'.op = "providerFails" =>
            /\ UNCHANGED <<dnaRef, generationHistory, historyIndex>>
            /\ status' = "THINKING_FAILED"
            /\ UNCHANGED <<isActiveRef, timerArmed, strayTimers, stepRef, nextStepTime, pc>>
       /\ (status = "THINKING_FAILED" /\ event'.op = "fetch" /\ event'.kind # "inactive") =>
            /\ event'.kind = "request"
            /\ BagCardinality(inFlight') = BagCardinality(inFlight) + 1]_vars

\* C4 as amended: the same, except that the next generation tick calls the provider
\* again only if the cache it finds (after its tempo check) holds fewer than 3 samples;
\* otherwise it replays a cached sample.
C4_FailureThenRetryUnlessCached ==
    [][/\ event'.op = "providerFails" =>
            /\ UNCHANGED <<dnaRef, generationHistory, historyIndex>>
            /\ status' = "THINKING_FAILED"
            /\ UNCHANGED <<isActiveRef, timerArmed, strayTimers, stepRef, nextStepTime, pc>>
       /\ (status = "THINKING_FAILED" /\ event'.op = "fetch" /\ event'.kind # "inactive") =>
            IF generationHistory.bpm = bpmRef /\ Len(samples) >= 3
            THEN /\ event'.kind = "recall"
                 /\ UNCHANGED inFlight
            ELSE /\ event'.kind = "request"
                 /\ BagCardinality(inFlight') = BagCardinality(inFlight) + 1]_vars

\* C4's case: a call failed while a generated DNA was active and the scheduler armed,
\* and the tick after it called the provider again
C4_RetriedAfterFailure ==
    /\ FetchRan
    /\ event.prevStatus = "THINKING_FAILED"
    /\ event.kind = "request"
    /\ dnaRef # INITIAL_DNA
    /\ samples # <<>>
    /\ timerArmed

\* C5: whatever the provider sent, no scheduler iteration throws, and while playback is
\* active a scheduler timeout stays pending.
C5_SchedulerSurvivesAnyPayload ==
    /\ event.op = "step" => ~event.fault
    /\ (isActiveRef /\ pc = "idle") => (timerArmed \/ strayTimers > 0)

\* C6: the cache never holds more than 3 samples.
C6_CacheAtMostThree == Len(samples) <= 3

\* C7: every scheduled step reads its patterns from, and reports in its notification,
\* section A when floor(globalStep / 32) is even and B when it is odd, globalStep being
\* the counter's value for that step, whatever DNA is active.
C7_SectionFollowsCounter ==
    StepScheduled =>
        LET key == IF (event.gstep \div 32) % 2 = 0 THEN "A" ELSE "B"
        IN  /\ event.gstep = stepRef - 1
            /\ event.sectionKey = key
            /\ event.notify = <<event.gstep % 8, key>>
            /\ event.prob = probAt(dnaRef.sections[key], event.gstep % 8)
            /\ event.gstep % 8 = 0 => event.pads = firstChord(dnaRef.sections[key])

\* C7's case: a step of the second block of 32, scheduled from a DNA the provider sent
C7_StepInSectionB ==
    /\ StepScheduled
    /\ event.gstep >= 32
    /\ event.sectionKey = "B"
    /\ dnaRef.genre = "glitch_hop"

\* C8: a scheduled step whose counter is a multiple of 8 triggers the pad voice for
\* every tone of the section's first chord (of the fallback chord if there is none),
\* whether or not the gate passed; any other step triggers no pad.
C8_PadEveryEighthStep ==
    StepScheduled =>
        LET cp == dnaRef.sections[event.sectionKey].chordProgression
        IN  IF event.gstep % 8 = 0
            THEN event.pads = (IF Len(cp) >= 1 THEN cp[1] ELSE fallbackChord)
            ELSE event.pads = <<>>

\* C8's case: the pad triggered at a phrase boundary of a section whose probMap is 0.0
\* throughout, the gate having failed
C8_PadWithGateClosed ==
    /\ StepScheduled
    /\ event.gstep % 8 = 0
    /\ event.prob = 0
    /\ ~event.gate
    /\ event.pads = <<50, 53, 57>>
    /\ dnaRef.sections[event.sectionKey].probMap = <<0, 0, 0, 0, 0, 0, 0, 0>>

\* C9: at a scheduled step whose probMap entry is 1.0 the gate passes and exactly the
\* channels whose flag is set fire; where the entry is 0.0 no gated channel fires.
C9_GateAtOneAndZero ==
    StepScheduled =>
        LET sec == dnaRef.sections[event.sectionKey]
            i   == event.stepIdx
        IN  /\ event.prob = probAt(sec, i)
            /\ event.prob = ProbOne =>
                /\ event.gate
                /\ "kick" \in event.perc   <=> Truthy(At(sec.drums.kick, i))
                /\ "snare" \in event.perc  <=> Truthy(At(sec.drums.snare, i))
                /\ "hat" \in event.perc    <=> Truthy(At(sec.drums.hihat, i))
                /\ "glitch" \in event.perc <=> Truthy(Get(sec.drums, "glitch", i))
                /\ event.bass # Undefined  <=> Truthy(Get(sec, "bassLine", i))
                /\ event.lead # Undefined  <=> Get(sec, "leadMelody", i) \notin {Null, Undefined}
                /\ event.arp # Undefined   <=> Truthy(Get(sec, "arpPattern", i))
            /\ event.prob = 0 =>
                /\ ~event.gate
                /\ event.perc = {}
                /\ event.bass = Undefined
                /\ event.lead = Undefined
                /\ event.arp = Undefined

\* C9's case: the largest draw against a probMap entry of 1.0, the kick firing
C9_LargestDrawPasses ==
    /\ StepScheduled
    /\ event.prob = ProbOne
    /\ event.draw = 999
    /\ "kick" \in event.perc

\* C10: a resolved payload that sets only `genre` leaves an active DNA, and a newest
\* cached sample, equal to INITIAL_DNA except for that genre.
C10_GenreOnlyPayload ==
    (event.op = "providerResolves" /\ DOMAIN event.res = {"genre"}) =>
        /\ dnaRef = [INITIAL_DNA EXCEPT !.genre = event.res.genre]
        /\ samples[Len(samples)] = dnaRef

\* C10's case: the payload {genre: "X"} was merged and published
C10_GenreXPublished ==
    /\ event.op = "providerResolves"
    /\ event.res = [genre |-> "X"]
    /\ dnaRef.genre = "X"
    /\ dnaRef.sections = INITIAL_DNA.sections
    /\ samples # <<>>

\* C11: whatever control changed it (long press, slider, numeric entry), and whether
\* playback is active or not, the tempo the scheduler reads lies within 40..240 BPM.
C11_TempoWithinRange == bpmRef >= 40 /\ bpmRef <= 240

\* the scheduler is running (called from the timeout or from toggle)
inScheduler == pc \in {"scheduler_timer", "scheduler_toggle"}

\* the step being taken is the first iteration of the scheduler() call made by a start
FirstStepOfStart == pc = "scheduler_toggle" /\ event.op = "quiet" /\ event'.op = "step"

\* the step being taken is the start branch of toggle
Starts == pc = "idle" /\ pc' = "scheduler_toggle"

\* C12: every start resets the step counter, so the first step scheduled after a start
\* (the first start or a restart) is global step 0 in section A.
C12_StartResetsStepCounter ==
    [][ /\ Starts => stepRef' = 0
        /\ FirstStepOfStart => (event'.gstep = 0 /\ event'.sectionKey = "A") ]_vars

\* C13 as stated: a step is scheduled from section A as long as fewer than 256 steps
\* were scheduled before it.
C13_FlipsAfter256Steps ==
    (StepScheduled /\ event.gstep < 256) => event.sectionKey = "A"

\* C13: the counter of a scheduled step is the number of steps scheduled before it since
\* the process began; the first 32 steps are scheduled from section A and the step
\* after exactly 32 scheduled steps is the first scheduled from section B.
C13_FlipsAfter32Steps ==
    StepScheduled =>
        /\ stepRef = event.gstep + 1
        /\ event.gstep < 32 => event.sectionKey = "A"
        /\ event.gstep = 32 => event.sectionKey = "B"

\* C13's case: after the one start of a fresh process, step 32 is scheduled from B
C13_FirstStepOfB ==
    /\ StepScheduled
    /\ clicks = 1
    /\ event.gstep = 32
    /\ event.sectionKey = "B"

\* C14: while playback is inactive no step is scheduled and the step counter keeps its
\* value; the cursor keeps its value until the next start; a stop changes neither; and
\* the steps already scheduled stay scheduled until the clock passes their onset.
C14_NoStepWhileInactive ==
    [][ /\ ~isActiveRef =>
              /\ event'.op # "step"
              /\ ~inScheduler
              /\ stepRef' = stepRef
              /\ ~Starts => nextStepTime' = nextStepTime
              /\ scheduled' = {t \in scheduled : t > now'}
        /\ (isActiveRef /\ ~isActiveRef') => UNCHANGED <<stepRef, nextStepTime, scheduled>> ]_vars

\* C14's case: playback was stopped with scheduled steps still ahead of the clock
C14_StoppedWithStepsAhead ==
    /\ ~isActiveRef
    /\ pc = "idle"
    /\ stepRef > 0
    /\ scheduled # {}

\* C15: every start sets the cursor to the audio clock's reading plus 0.1 s, whatever
\* the cursor was, and the first step the start schedules has that onset, which is not
\* in the past.
C15_StartSetsCursor ==
    [][ /\ Starts => nextStepTime' = now + startOffset
        /\ (FirstStepOfStart /\ ~event'.fault) =>
              /\ event'.time = now + startOffset
              /\ event'.time >= now
              /\ now' = now ]_vars

\* C15's case: the first step of a restart made after the clock has moved on
C15_FirstStepOfRestart ==
    /\ StepScheduled
    /\ pc = "scheduler_toggle"
    /\ event.gstep > 0
    /\ now > 0
    /\ event.time = now + startOffset

\* C16: a scheduler invocation schedules no step whose nominal start is at or beyond
\* clock-now + 0.2 s, and when it returns (re-arming its timeout) the cursor is at or
\* beyond clock-now + 0.2 s: every step due earlier was scheduled in that invocation.
C16_WindowFilledOnReturn ==
    [][ /\ event'.op = "step" => (event'.time < now + lookAhead /\ now' = now)
        /\ (inScheduler /\ event'.op = "quiet") =>
              /\ nextStepTime' >= now' + lookAhead
              /\ nextStepTime' = nextStepTime
              /\ timerArmed' ]_vars

\* C16's case: the invocation that followed a stall of the host has returned, having
\* scheduled thirty steps or more to catch up
C16_CaughtUpAfterStall ==
    /\ pc = "idle"
    /\ isActiveRef
    /\ timerArmed
    /\ clicks = 1
    /\ now >= 5000
    /\ stepRef >= 30
    /\ nextStepTime >= now + lookAhead

\* C17: every start is followed at once by a fetchNewDNA call that passes the active
\* check, and while playback is inactive no fetchNewDNA call starts a provider call or
\* a recall.
C17_RequestOnEveryActivation ==
    [][ /\ pc = "scheduler_toggle" => pc' \in {"scheduler_toggle", "fetch_toggle"}
        /\ pc = "fetch_toggle" => (event'.op = "fetch" /\ event'.kind # "inactive")
        /\ ~isActiveRef => (event'.op = "fetch" => event'.kind = "inactive")
        /\ (~isActiveRef /\ ~isActiveRef') =>
              (BagCardinality(inFlight') <= BagCardinality(inFlight)
               /\ BagCardinality(recalls') <= BagCardinality(recalls)) ]_vars

\* C19: a scheduled step moves the cursor on by 60/bpm/4 of the tempo read at that
\* step and the counter by 1; a tempo change happens outside the scheduler and leaves
\* the cursor, the counter and the steps already scheduled alone.
C19_StepAdvancesByCurrentTempo ==
    [][ /\ (event'.op = "step" /\ ~event'.fault) =>
              /\ event'.time = nextStepTime
              /\ nextStepTime' = nextStepTime + (15000 \div bpmRef)
              /\ stepRef' = stepRef + 1
        /\ inScheduler => bpmRef' = bpmRef
        /\ bpmRef' # bpmRef => UNCHANGED <<nextStepTime, stepRef, scheduled>> ]_vars

\* C19's case: a step scheduled at 120 BPM after playback began at 105 BPM
C19_StepAfterTempoChange ==
    /\ StepScheduled
    /\ event.gstep > 0
    /\ bpmRef = 120
    /\ event.dur = 125
    /\ nextStepTime = event.time + 125
    /\ event.time \in scheduled

\* a DNA with every field the scheduler and the publishing code read
isComplete(dna) ==
    /\ DOMAIN INITIAL_DNA \subseteq DOMAIN dna
    /\ \A k \in {"A", "B"} :
        /\ k \in DOMAIN dna.sections
        /\ DOMAIN SectionA \subseteq DOMAIN dna.sections[k]
        /\ {"kick", "snare", "hihat"} \subseteq DOMAIN dna.sections[k].drums

\* C20: the active DNA changes only when the generation controller publishes (a merged
\* provider result or a cached sample), never in the scheduler, and what is published
\* is a complete DNA.
C20_OnlyCompleteDnaPublished ==
    [][ /\ dnaRef' # dnaRef => (event'.op \in {"providerResolves", "recallFires"} /\ pc = "idle")
        /\ isComplete(dnaRef') ]_vars

\* C18: no scheduler step faults on arrays shorter than the pattern, and at a step index
\* at or past the end of a drum array, bassLine, leadMelody or arpPattern that channel
\* produces no event; past the end of probMap the gate uses the fallback probability.
C18_ShortArraysGiveNoEvent ==
    event.op = "step" =>
        LET sec == dnaRef.sections[event.sectionKey]
            i   == event.stepIdx
        IN  /\ ~event.fault
            /\ i >= Len(sec.drums.kick)   => "kick" \notin event.perc
            /\ i >= Len(sec.drums.snare)  => "snare" \notin event.perc
            /\ i >= Len(sec.drums.hihat)  => "hat" \notin event.perc
            /\ i >= Len(sec.drums.glitch) => "glitch" \notin event.perc
            /\ i >= Len(sec.bassLine)     => event.bass = Undefined
            /\ i >= Len(sec.leadMelody)   => event.lead = Undefined
            /\ i >= Len(sec.arpPattern)   => event.arp = Undefined
            /\ i >= Len(sec.probMap)      => event.prob = fallbackProb

\* C18's case: the last step index of the pattern, past the end of every array, with
\* the gate passed on the fallback probability
C18_StepPastEveryArray ==
    /\ StepScheduled
    /\ dnaRef.genre = "SHORT"
    /\ event.stepIdx = 7
    /\ event.prob = fallbackProb
    /\ event.gate
    /\ event.perc = {}
    /\ event.bass = Undefined /\ event.lead = Undefined /\ event.arp = Undefined

\* C21: at a scheduled step whose gate passed, the lead fires exactly when the
\* leadMelody entry is a note number, the note number 0 included, and plays that note;
\* the rest marker and a missing entry fire nothing; a bassLine entry of 0 fires no bass.
C21_LeadRestDistinctFromZero ==
    (StepScheduled /\ event.gate) =>
        LET sec  == dnaRef.sections[event.sectionKey]
            note == Get(sec, "leadMelody", event.stepIdx)
        IN  /\ note >= 0 => event.lead = note
            /\ note \in {Null, Undefined} => event.lead = Undefined
            /\ Get(sec, "bassLine", event.stepIdx) = 0 => event.bass = Undefined

\* C21's case: the gate passed at an index whose leadMelody entry is the note number 0,
\* and the lead played note 0
C21_LeadPlaysNoteZero ==
    /\ StepScheduled
    /\ event.gate
    /\ dnaRef.sections[event.sectionKey].leadMelody[event.stepIdx + 1] = 0
    /\ event.lead = 0
    /\ event.bass = 38

\* C22: every scheduler iteration that leaves the loop running moves the cursor forward,
\* towards the end of the look-ahead window, so that the loop ends after finitely many
\* steps, at every tempo a control can set.
C22_EveryStepNearsLoopEnd ==
    [][(event'.op = "step" /\ ~event'.fault) => nextStepTime' > nextStepTime]_vars

\* C23: a sample enters the cache only from a request made at the tempo the cache is
\* keyed by.
C23_SampleRequestedAtCacheTempo ==
    event.op = "providerResolves" => event.bpm = generationHistory.bpm

\* C24: at most one scheduler timeout is pending at any time.
C24_AtMostOneRearmChain ==
    (IF timerArmed THEN 1 ELSE 0) + strayTimers <= 1

\* C25: a step is never scheduled with an onset earlier than that of a step scheduled
\* before it whose notification is still to come, so that notifications, which fire
\* at the onsets, are delivered in the order of scheduling.
C25_NotificationsInStepOrder ==
    [][(event'.op = "step" /\ ~event'.fault) => \A t \in scheduled : t <= event'.time]_vars

====
